---- MODULE Spec2Model ----
(***************************************************************************)
(* RoboWrapper (src/RoboWrapper.py): a wrapper that resolves declarative   *)
(* job files into robocopy invocations.                                    *)
(*                                                                         *)
(* Three specifications: Spec is the whole program (main and the batch it  *)
(* runs), SpecRunJob is one call of RunJob over a larger set of job files, *)
(* SpecResolve is ResolveDriveLetter over every bounded host snapshot.     *)
(*                                                                         *)
(* Strings are modelled as sequences of tokens.  A token is a drive        *)
(* specifier ("C:"), the separator "\", a name component or a placeholder  *)
(* ("$drive$").  The empty string is << >>.                                *)
(***************************************************************************)
EXTENDS Integers, Sequences, FiniteSets, TLC

VARIABLES
    mode,        \* main: what the command line asks for
    dry_run,     \* main: args.dry_run
    jobs,        \* main: the set `jobs`, in the order the for loop visits it
    file,        \* main: the loop variable `file` left behind by the glob loop
    idx,         \* main: position of the for loop over jobs
    succeeded,   \* main: counter
    failed,      \* main: counter
    mpc,         \* main: control position
    reported,    \* main: the tally logged by "Finished: ..."
    ran,         \* history: how often each job file was handed to RunJob
    wmi,         \* the global wmiLogicalDisks, and the host queries made so far
    fs,          \* the filesystem RunJob looks at
    pc,          \* RunJob: control position
    job,         \* RunJob: the loaded job
    run,         \* RunJob: job['run']
    result,      \* RunJob: how the call ended
    child,       \* DoRobocopy: the child process
    calls,       \* history: the steps of the current RunJob call
    rin,         \* ResolveDriveLetter alone: its input
    rout         \* ResolveDriveLetter alone: its outcome

vars == <<mode, dry_run, jobs, file, idx, succeeded, failed, mpc, reported, ran,
          wmi, fs, pc, job, run, result, child, calls, rin, rout>>

mainVars == <<mode, dry_run, jobs, file, idx, succeeded, failed, mpc, reported, ran>>

(***************************************************************************)
(* Bounds                                                                  *)
(***************************************************************************)
NumFiles == 3       \* job files in a batch
MaxVolumes == 2     \* volumes of a host snapshot, ResolveDriveLetter alone

(***************************************************************************)
(* Python values                                                           *)
(***************************************************************************)
None == "None"              \* Python's None
Absent == "<absent>"        \* a key the mapping does not carry
NoPath == <<"<absent>">>    \* the same, for a string-valued key

Sep == "\\"
DriveTokens == {"C:", "E:", "F:"}

\* str.replace(old, new) for a one-token `old`
RECURSIVE Replace(_, _, _)
Replace(s, old, new) ==
    IF s = << >> THEN << >>
    ELSE (IF Head(s) = old THEN new ELSE <<Head(s)>>) \o Replace(Tail(s), old, new)

\* ntpath.splitdrive: <<drive, rest>>
splitdrive(p) ==
    IF Len(p) >= 1 /\ p[1] \in DriveTokens
    THEN <<SubSeq(p, 1, 1), Tail(p)>>
    ELSE <<(<< >>), p>>

IsAbs(p) == p # << >> /\ p[1] = Sep

\* one round of the loop of ntpath.join: acc is <<result_drive, result_path>>.
\* Drive tokens are written in one case, so the branch for the same drive in
\* another case does not arise; UNC prefixes are not among the tokens.
JoinStep(acc, p) ==
    LET p_drive == splitdrive(p)[1]
        p_path  == splitdrive(p)[2]
    IN  IF IsAbs(p_path)
        THEN <<IF p_drive # << >> \/ acc[1] = << >> THEN p_drive ELSE acc[1], p_path>>
        ELSE IF p_drive # << >> /\ p_drive # acc[1]
        THEN <<p_drive, p_path>>
        ELSE <<acc[1],
               (IF acc[2] # << >> /\ acc[2][Len(acc[2])] # Sep
                THEN acc[2] \o <<Sep>> ELSE acc[2]) \o p_path>>

\* os.path.join(a, b, c) on Windows
join3(a, b, c) ==
    LET r == JoinStep(JoinStep(splitdrive(a), b), c)
    IN  r[1] \o r[2]

(***************************************************************************)
(* Volume Directory and Drive Resolver                                     *)
(***************************************************************************)
\* what a query of the host answers: the disks, or a failure of the query
HostDisks(disks) == [ok |-> TRUE, disks |-> disks]
WmiError == [ok |-> FALSE, disks |-> << >>]

\* GetLogicalDrivesFromWMI.  w is the global wmiLogicalDisks (cached says it
\* is not None, disks is its value), with the number of calls and of host
\* queries made so far and whether this call raised; host is what a query
\* would answer now
\* (faulty variant: queries the host at every call)
AlwaysQueryWMI(w, host) ==
    IF ~host.ok
    THEN [w EXCEPT !.calls = @ + 1, !.queries = @ + 1, !.err = TRUE]
    ELSE [cached |-> TRUE, disks |-> host.disks, calls |-> w.calls + 1,
          queries |-> w.queries + 1, err |-> FALSE]

GetLogicalDrivesFromWMI(w, host) ==
    IF ~w.cached
    THEN IF ~host.ok
         THEN [w EXCEPT !.calls = @ + 1, !.queries = @ + 1, !.err = TRUE]
         ELSE [cached |-> TRUE, disks |-> host.disks, calls |-> w.calls + 1,
               queries |-> w.queries + 1, err |-> FALSE]
    ELSE [w EXCEPT !.calls = @ + 1]

\* the for loop of FindDriveFromSerial / FindDriveFromName
RECURSIVE Scan(_, _, _)
Scan(vols, attr, val) ==
    IF vols = << >> THEN None
    ELSE IF Head(vols)[attr] = val THEN Head(vols).Name
    ELSE Scan(Tail(vols), attr, val)

FindDriveFromSerial(w, host, serial) ==
    LET w1 == GetLogicalDrivesFromWMI(w, host)
    IN  [w |-> w1,
         found |-> IF w1.err THEN None ELSE Scan(w1.disks, "VolumeSerialNumber", serial)]

FindDriveFromName(w, host, name) ==
    LET w1 == GetLogicalDrivesFromWMI(w, host)
    IN  [w |-> w1,
         found |-> IF w1.err THEN None ELSE Scan(w1.disks, "VolumeName", name)]

\* `if found:` of a str-or-None
Truthy(found) == found # None /\ found # ""

\* ResolveDriveLetter: [w, exc, found, tried]; exc is "" when it returns
\* (faulty variant: tries name before serial)
ResolveNameFirst(options, w, host) ==
    LET hasS == "serial" \in options.keys
        hasN == "name" \in options.keys
        n  == IF hasN THEN FindDriveFromName(w, host, options.name)
              ELSE [w |-> w, found |-> None]
        t1 == IF hasN THEN <<<<"name", options.name>>>> ELSE << >>
        s  == IF hasS THEN FindDriveFromSerial(n.w, host, options.serial)
              ELSE [w |-> n.w, found |-> None]
        t2 == IF hasS THEN t1 \o <<<<"serial", options.serial>>>> ELSE t1
    IN  IF hasN /\ n.w.err THEN [w |-> n.w, exc |-> "com_error", found |-> None, tried |-> t1]
        ELSE IF hasN /\ Truthy(n.found) THEN [w |-> n.w, exc |-> "", found |-> n.found, tried |-> t1]
        ELSE IF hasS /\ s.w.err THEN [w |-> s.w, exc |-> "com_error", found |-> None, tried |-> t2]
        ELSE IF hasS /\ Truthy(s.found) THEN [w |-> s.w, exc |-> "", found |-> s.found, tried |-> t2]
        ELSE [w |-> s.w, exc |-> "RoboException", found |-> None, tried |-> t2]

ResolveDriveLetter(options, w, host) ==
    LET hasS == "serial" \in options.keys
        hasN == "name" \in options.keys
        s  == IF hasS THEN FindDriveFromSerial(w, host, options.serial)
              ELSE [w |-> w, found |-> None]
        t1 == IF hasS THEN <<<<"serial", options.serial>>>> ELSE << >>
        n  == IF hasN THEN FindDriveFromName(s.w, host, options.name)
              ELSE [w |-> s.w, found |-> None]
        t2 == IF hasN THEN t1 \o <<<<"name", options.name>>>> ELSE t1
    IN  IF hasS /\ s.w.err THEN [w |-> s.w, exc |-> "com_error", found |-> None, tried |-> t1]
        ELSE IF hasS /\ Truthy(s.found) THEN [w |-> s.w, exc |-> "", found |-> s.found, tried |-> t1]
        ELSE IF hasN /\ n.w.err THEN [w |-> n.w, exc |-> "com_error", found |-> None, tried |-> t2]
        ELSE IF hasN /\ Truthy(n.found) THEN [w |-> n.w, exc |-> "", found |-> n.found, tried |-> t2]
        ELSE [w |-> n.w, exc |-> "RoboException", found |-> None, tried |-> t2]

(***************************************************************************)
(* Path Substitution Engine                                                *)
(***************************************************************************)
\* VALID_ENV_VARS, each with its placeholder token
VALID_ENV_VARS ==
    << <<"SYSTEMROOT", "$SYSTEMROOT$">>, <<"TMP", "$TMP$">>,
       <<"COMPUTERNAME", "$COMPUTERNAME$">>, <<"USERDOMAIN", "$USERDOMAIN$">>,
       <<"PROGRAMFILES", "$PROGRAMFILES$">>, <<"PROGRAMFILES(X86)", "$PROGRAMFILES(X86)$">>,
       <<"COMMONPROGRAMFILES(X86)", "$COMMONPROGRAMFILES(X86)$">>,
       <<"ALLUSERSPROFILE", "$ALLUSERSPROFILE$">>, <<"LOCALAPPDATA", "$LOCALAPPDATA$">>,
       <<"HOMEPATH", "$HOMEPATH$">>, <<"PROGRAMW6432", "$PROGRAMW6432$">>,
       <<"USERNAME", "$USERNAME$">>, <<"PROGRAMDATA", "$PROGRAMDATA$">>,
       <<"WINDIR", "$WINDIR$">>, <<"APPDATA", "$APPDATA$">>, <<"HOMEDRIVE", "$HOMEDRIVE$">>,
       <<"SYSTEMDRIVE", "$SYSTEMDRIVE$">>, <<"COMMONPROGRAMW6432", "$COMMONPROGRAMW6432$">>,
       <<"PUBLIC", "$PUBLIC$">>, <<"USERPROFILE", "$USERPROFILE$">> >>

\* os.environ of the process
Environ == [TMP |-> <<"C:", Sep, "tmp">>, HOMEDRIVE |-> <<"C:">>]

\* ExpandEnvironmentVars: the loop over VALID_ENV_VARS from position i on
RECURSIVE ExpandFrom(_, _)
ExpandFrom(path, i) ==
    IF i > Len(VALID_ENV_VARS) THEN path
    ELSE ExpandFrom(IF VALID_ENV_VARS[i][1] \in DOMAIN Environ
                    THEN Replace(path, VALID_ENV_VARS[i][2], Environ[VALID_ENV_VARS[i][1]])
                    ELSE path,
                    i + 1)

ExpandEnvironmentVars(path) == ExpandFrom(path, 1)

\* strftime of the job's time: one token, the format is kept in it
Timestamp(r) == <<"<time>", r.time_format>>

SubstitutePath(path, r) ==
    LET p1 == Replace(path, "$src_path$", r.src_path)
        p2 == Replace(p1, "$dst_path$", r.dst_path)
        p3 == Replace(p2, "$src_drive$", r.src_drive)
        p4 == Replace(p3, "$dst_drive$", r.dst_drive)
        p5 == Replace(p4, "$timestamp$", Timestamp(r))
    IN  ExpandEnvironmentVars(p5)

(***************************************************************************)
(* Job descriptions as yaml.load returns them                              *)
(*                                                                         *)
(* A value has a kind: "map" (a dict), "str" (a scalar string), "null"     *)
(* (None) or "int".  keys is what `k in value` finds: the keys of a dict,  *)
(* the substrings of a string.  `k in value` raises TypeError for None and *)
(* int, and value[k] raises TypeError for a string.                        *)
(***************************************************************************)
MapSection(path, serial, name, flag) ==
    [kind |-> "map",
     keys |-> (IF path = NoPath THEN {} ELSE {"path"})
              \cup (IF serial = Absent THEN {} ELSE {"serial"})
              \cup (IF name = Absent THEN {} ELSE {"name"})
              \cup (IF flag = NoPath THEN {} ELSE {"flag"}),
     path |-> path, serial |-> serial, name |-> name, flag |-> flag]

ScalarSection(kind, keys) ==
    [kind |-> kind, keys |-> keys,
     path |-> NoPath, serial |-> Absent, name |-> Absent, flag |-> NoPath]

\* the marker of a section the job does not carry
AbsentSection == ScalarSection("absent", {})

\* job['robocopy']: a dict that may carry options, log and files; without
\* keys it stands for a job that has no robocopy section as well
NoRobocopy == [keys |-> {}, options |-> << >>, log |-> NoPath, files |-> Absent]

MapDoc(hasName, source, destination, time_format, robocopy) ==
    [kind |-> "map",
     keys |-> (IF hasName THEN {"name"} ELSE {})
              \cup (IF source.kind = "absent" THEN {} ELSE {"source"})
              \cup (IF destination.kind = "absent" THEN {} ELSE {"destination"})
              \cup (IF time_format = Absent THEN {} ELSE {"settings"})
              \cup (IF robocopy.keys = {} THEN {} ELSE {"robocopy"}),
     source |-> source,
     destination |-> destination,
     time_format |-> time_format,
     robocopy |-> robocopy]

ScalarDoc(kind, keys) ==
    [kind |-> kind, keys |-> keys, source |-> AbsentSection,
     destination |-> AbsentSection, time_format |-> Absent, robocopy |-> NoRobocopy]

NoJob == ScalarDoc("null", {})

(***************************************************************************)
(* Job Model Builder                                                       *)
(***************************************************************************)
\* ValidateJob: "ok" when it returns True, else the exception it raises
ValidateJob(j) ==
    IF j.kind \in {"null", "int"} THEN "TypeError"          \* 'name' not in 5
    ELSE IF "name" \notin j.keys THEN "RoboException"
    ELSE IF "source" \notin j.keys THEN "RoboException"
    ELSE IF "destination" \notin j.keys THEN "RoboException"
    ELSE IF j.kind # "map" THEN "TypeError"                 \* "..."['source']
    ELSE IF j.source.kind \in {"null", "int"} THEN "TypeError"
    ELSE IF "path" \notin j.source.keys THEN "RoboException"
    ELSE IF j.destination.kind \in {"null", "int"} THEN "TypeError"
    ELSE IF "path" \notin j.destination.keys THEN "RoboException"
    ELSE "ok"

DefaultTimeFormat == "%Y-%m-%dT%H%M%S%z"

\* DefaultJobSettings: job['run'] with its defaults; the paths and drives are
\* not set yet
DefaultJobSettings ==
    [options |-> << >>, file_types |-> "*.*", time_format |-> DefaultTimeFormat,
     time |-> "now",
     src_path |-> NoPath, dst_path |-> NoPath, src_drive |-> NoPath, dst_drive |-> NoPath]

ParseSettings(j, r) ==
    IF "settings" \in j.keys THEN [r EXCEPT !.time_format = j.time_format] ELSE r

HasCriteria(section) == section.keys \cap {"serial", "name"} # {}

\* one location of ParseLocations: [w, exc, path, drive]; p is the path with
\* its environment variables expanded
ParseLocation(section, p, w, host) ==
    LET r == ResolveDriveLetter(section, w, host)
    IN  IF HasCriteria(section)
        THEN IF r.exc # ""
             THEN [w |-> r.w, exc |-> r.exc, path |-> p, drive |-> NoPath]
             ELSE [w |-> r.w, exc |-> "", drive |-> <<r.found>>,
                   path |-> join3(<<r.found>>, <<Sep>>, p)]
        ELSE [w |-> w, exc |-> "", path |-> p, drive |-> splitdrive(p)[1]]

\* os.path.exists, os.path.isfile
exists(filesystem, path) == path \in filesystem.paths \cup filesystem.files

isfile(filesystem, path) == path \in filesystem.files

\* the test of ParseLocations on the resolved source
\* (faulty variant: the test is left out)
SourceNeverMissing(filesystem, r) == FALSE

SourceMissing(filesystem, r) == ~exists(filesystem, r.src_path)

ParseRobocopyOptions(j, r) ==
    LET rc == j.robocopy
        r1 == IF "options" \in rc.keys THEN [r EXCEPT !.options = rc.options] ELSE r
        r2 == IF "log" \in rc.keys
              THEN [r1 EXCEPT !.options = Append(@, <<"/LOG:">> \o SubstitutePath(rc.log, r1))]
              ELSE r1
    IN  IF "files" \in rc.keys THEN [r2 EXCEPT !.file_types = rc.files] ELSE r2

(***************************************************************************)
(* Safety Gate                                                             *)
(***************************************************************************)
\* CheckFlag: whether the location's flag, if it declares one, is a file
\* (faulty variant: the flag is never looked at)
CheckFlagIgnored(options, path, filesystem) == TRUE

CheckFlag(options, path, filesystem) ==
    IF "flag" \notin options.keys THEN TRUE
    ELSE isfile(filesystem,
                Replace(Replace(options.flag, "$drive$", splitdrive(path)[1]),
                        "$path$", path))

\* the path CheckFlag looks at
FlagPath(options, path) ==
    Replace(Replace(options.flag, "$drive$", splitdrive(path)[1]), "$path$", path)

(***************************************************************************)
(* Execution Orchestrator                                                  *)
(***************************************************************************)
\* the argument vector DoRobocopy builds
Command(r) == <<<<"robocopy">>, r.src_path, r.dst_path, <<r.file_types>>>> \o r.options

\* the verdict on the child's exit code
\* (faulty variant: 8 counts as success)
ExitVerdictOff(returncode) == ~(returncode > 8)

ExitVerdict(returncode) == ~(returncode >= 8)

\* DoRobocopy up to the child's start: [ret, child]; ret is "True" for the
\* dry run, "OSError" when Popen cannot start the child, "wait" otherwise
NoChild == [state |-> "none", cmd |-> << >>, returncode |-> -1]

\* (faulty variant: dry_run is ignored)
DoRobocopyNoDryRun(r, dry, launched) ==
    IF ~launched THEN [ret |-> "OSError", child |-> NoChild]
    ELSE [ret |-> "wait",
          child |-> [state |-> "running", cmd |-> Command(r), returncode |-> -1]]

DoRobocopy(r, dry, launched) ==
    IF dry THEN [ret |-> "True", child |-> NoChild]
    ELSE IF ~launched THEN [ret |-> "OSError", child |-> NoChild]
    ELSE [ret |-> "wait",
          child |-> [state |-> "running", cmd |-> Command(r), returncode |-> -1]]

\* LoadJob: None for a YAML error, else what yaml.load returns
LoadJob(doc) == IF doc.kind = "yamlerror" THEN NoJob ELSE doc

(***************************************************************************)
(* The environment the checks draw from                                    *)
(***************************************************************************)
Serials == {"AAAA1111", "BBBB2222"}
Labels == {"KINGSTON", "BACKUP"}

Volume(n, s, l) == [Name |-> n, VolumeSerialNumber |-> s, VolumeName |-> l]

\* what a query of the host may answer while a batch runs
HostAnswers ==
    { HostDisks(<<Volume("C:", "CCCC0000", "SYSTEM"), Volume("E:", "AAAA1111", "KINGSTON"),
                  Volume("F:", "BBBB2222", "KINGSTON")>>),
      HostDisks(<<Volume("C:", "CCCC0000", "SYSTEM"), Volume("F:", "AAAA1111", "BACKUP")>>),
      WmiError }

FlagTemplate == <<"$drive$", Sep, "FLAG.TXT">>

FileSystems ==
    { [paths |-> { <<"data">>, <<"C:", Sep, "data">>, <<"E:", Sep, "data">>,
                   <<"C:", Sep, "tmp", Sep, "data">> },
       files |-> { <<"E:", Sep, "FLAG.TXT">>, <<"C:", Sep, "FLAG.TXT">> }],
      [paths |-> { <<"F:", Sep, "data">>, <<"E:", Sep, "data">> },
       files |-> { <<"F:", Sep, "FLAG.TXT">> }] }

LiteralPaths == { <<"data">>, <<"C:", Sep, "data">>, <<"$TMP$", Sep, "data">> }

MapSections ==
    { MapSection(p, s, n, f) :
        p \in LiteralPaths \cup {NoPath},
        s \in {Absent, "AAAA1111", "ZZZZ9999"},
        n \in {Absent, "KINGSTON"},
        f \in {NoPath, FlagTemplate} }

Sections ==
    MapSections \cup {ScalarSection("null", {}), ScalarSection("str", {"path"})}

FullRobocopy ==
    [keys |-> {"options", "log", "files"}, options |-> <<<<"/MIR">>, <<"/R:1">>>>,
     log |-> <<"$dst_drive$", Sep, "logs", Sep, "$timestamp$">>, files |-> "*.txt"]

ScalarDocs ==
    { ScalarDoc("yamlerror", {}), ScalarDoc("null", {}), ScalarDoc("int", {}),
      ScalarDoc("str", {}), ScalarDoc("str", {"name", "source", "destination"}) }

\* the job files one call of RunJob is checked on
Docs ==
    { MapDoc(hn, s, d, Absent, NoRobocopy) :
        hn \in BOOLEAN, s \in Sections \cup {AbsentSection},
        d \in Sections \cup {AbsentSection} }
    \cup ScalarDocs

\* the job files a batch is checked on
BatchDocs ==
    { ScalarDoc("yamlerror", {}),
      ScalarDoc("int", {}),
      MapDoc(FALSE, MapSection(<<"data">>, Absent, Absent, NoPath),
             MapSection(<<"data">>, Absent, Absent, NoPath), Absent, NoRobocopy),
      MapDoc(TRUE, MapSection(<<"C:", Sep, "data">>, Absent, Absent, NoPath),
             MapSection(<<"data">>, Absent, "KINGSTON", NoPath), "%Y%m%d", FullRobocopy),
      MapDoc(TRUE, MapSection(<<"data">>, "AAAA1111", "KINGSTON", FlagTemplate),
             MapSection(<<"data">>, "ZZZZ9999", "KINGSTON", NoPath), Absent, NoRobocopy) }

ExitCodes == 0 .. 16

(***************************************************************************)
(* RunJob, step by step                                                    *)
(***************************************************************************)
Event(name, value) == <<name, value>>

Bool(b) == IF b THEN "True" ELSE "False"

\* RunJob leaves with a return value
Return(value, event) ==
    /\ pc' = "returned"
    /\ result' = value
    /\ calls' = Append(calls, event)

\* RunJob leaves with an exception
Raise(exc, event) ==
    /\ pc' = "raised"
    /\ result' = exc
    /\ calls' = Append(calls, event)

Step(next, event) ==
    /\ pc' = next
    /\ result' = result
    /\ calls' = Append(calls, event)

\* os.path.isfile(job_file)
RunJobIsFile ==
    /\ pc = "isfile"
    /\ \E isf \in BOOLEAN :
          IF isf THEN Step("open", Event("isfile", "True"))
          ELSE Return("False", Event("isfile", "False"))
    /\ UNCHANGED <<mainVars, wmi, fs, job, run, child, rin, rout>>

\* open(job_file, 'r')
RunJobOpen ==
    /\ pc = "open"
    /\ \E o \in {"ok", "EACCES", "EIO"} :
          CASE o = "ok" -> Step("load", Event("open", o))
            [] o = "EACCES" -> Return("False", Event("open", o))
            [] OTHER -> Raise("IOError", Event("open", o))
    /\ UNCHANGED <<mainVars, wmi, fs, job, run, child, rin, rout>>

\* job = LoadJob(fp)
RunJobLoad(docs) ==
    /\ pc = "load"
    /\ \E doc \in docs :
          /\ job' = LoadJob(doc)
          /\ IF LoadJob(doc) = NoJob
             THEN Return("False", Event("LoadJob", "None"))
             ELSE Step("validate", Event("LoadJob", doc.kind))
    /\ UNCHANGED <<mainVars, wmi, fs, run, child, rin, rout>>

\* the try block around ValidateJob
RunJobValidate ==
    /\ pc = "validate"
    /\ LET v == ValidateJob(job)
       IN  CASE v = "ok" -> Step("build", Event("ValidateJob", v))
             [] v = "RoboException" -> Return("False", Event("ValidateJob", v))
             [] OTHER -> Raise(v, Event("ValidateJob", v))
    /\ UNCHANGED <<mainVars, wmi, fs, job, run, child, rin, rout>>

\* The try block around DefaultJobSettings .. ParseRobocopyOptions, in the
\* four steps in which it fills job['run'].
\* DefaultJobSettings, ParseSettings and the two reads of ['path'] at the top
\* of ParseLocations
RunJobSettings ==
    /\ pc = "build"
    /\ IF job.source.kind # "map" \/ job.destination.kind # "map"
       THEN /\ run' = ParseSettings(job, DefaultJobSettings)
            /\ Raise("TypeError", Event("ParseLocations", "TypeError"))
       ELSE /\ run' = [ParseSettings(job, DefaultJobSettings) EXCEPT
                          !.src_path = ExpandEnvironmentVars(job.source.path),
                          !.dst_path = ExpandEnvironmentVars(job.destination.path)]
            /\ Step("source", Event("ParseSettings", "ok"))
    /\ UNCHANGED <<mainVars, wmi, fs, job, child, rin, rout>>

\* how a step of ParseLocations that resolved a location goes on
AfterLocation(l, next, name) ==
    CASE l.exc = "" -> Step(next, Event(name, "ok"))
      [] l.exc = "RoboException" -> Return("False", Event(name, l.exc))
      [] OTHER -> Raise(l.exc, Event(name, l.exc))

\* ParseLocations: the source
RunJobSource ==
    /\ pc = "source"
    /\ \E host \in HostAnswers :
       \E l \in {ParseLocation(job.source, run.src_path, wmi, host)} :
          /\ wmi' = [l.w EXCEPT !.err = FALSE]
          /\ run' = IF l.exc = "" THEN [run EXCEPT !.src_path = l.path, !.src_drive = l.drive]
                    ELSE run
          /\ AfterLocation(l, "destination", "source")
    /\ UNCHANGED <<mainVars, fs, job, child, rin, rout>>

\* ParseLocations: the destination
RunJobDestination ==
    /\ pc = "destination"
    /\ \E host \in HostAnswers :
       \E l \in {ParseLocation(job.destination, run.dst_path, wmi, host)} :
          /\ wmi' = [l.w EXCEPT !.err = FALSE]
          /\ run' = IF l.exc = "" THEN [run EXCEPT !.dst_path = l.path, !.dst_drive = l.drive]
                    ELSE run
          /\ AfterLocation(l, "exists", "destination")
    /\ UNCHANGED <<mainVars, fs, job, child, rin, rout>>

\* ParseLocations: the source must exist; then ParseRobocopyOptions
RunJobSourceExists ==
    /\ pc = "exists"
    /\ IF SourceMissing(fs, run)
       THEN /\ run' = run
            /\ Return("False", Event("exists", "False"))
       ELSE /\ run' = ParseRobocopyOptions(job, run)
            /\ Step("flag_src", Event("exists", "True"))
    /\ UNCHANGED <<mainVars, wmi, fs, job, child, rin, rout>>

\* CheckFlag(job['source'], job['run']['src_drive'])
RunJobFlagSrc ==
    /\ pc = "flag_src"
    /\ IF CheckFlag(job.source, run.src_drive, fs)
       THEN Step("flag_dst", Event("CheckFlag_src", "True"))
       ELSE Return("False", Event("CheckFlag_src", "False"))
    /\ UNCHANGED <<mainVars, wmi, fs, job, run, child, rin, rout>>

\* CheckFlag(job['destination'], job['run']['dst_drive'])
RunJobFlagDst ==
    /\ pc = "flag_dst"
    /\ IF CheckFlag(job.destination, run.dst_drive, fs)
       THEN Step("robocopy", Event("CheckFlag_dst", "True"))
       ELSE Return("False", Event("CheckFlag_dst", "False"))
    /\ UNCHANGED <<mainVars, wmi, fs, job, run, child, rin, rout>>

\* DoRobocopy up to proc.wait()
RunJobExecute ==
    /\ pc = "robocopy"
    /\ \E launched \in BOOLEAN :
          LET d == DoRobocopy(run, dry_run, launched)
          IN  /\ child' = d.child
              /\ CASE d.ret = "True" -> Return("True", Event("DoRobocopy", "dry"))
                   [] d.ret = "wait" -> Step("wait", Event("DoRobocopy", "Popen"))
                   [] OTHER -> Raise(d.ret, Event("DoRobocopy", d.ret))
    /\ UNCHANGED <<mainVars, wmi, fs, job, run, rin, rout>>

\* proc.wait() returns: the child has exited
RunJobWait ==
    /\ pc = "wait"
    /\ child.state = "running"
    /\ \E code \in ExitCodes :
          /\ child' = [child EXCEPT !.state = "exited", !.returncode = code]
          /\ Return(Bool(ExitVerdict(code)), Event("wait", "exited"))
    /\ UNCHANGED <<mainVars, wmi, fs, job, run, rin, rout>>

NoWmi == [cached |-> FALSE, disks |-> << >>, calls |-> 0, queries |-> 0, err |-> FALSE]
NoResolve == [w |-> NoWmi, exc |-> "", found |-> None, tried |-> << >>]
NoInput == [options |-> AbsentSection, host |-> HostDisks(<< >>)]

\* the state of a call of RunJob before its first statement
RunJobEntry ==
    /\ pc = "isfile"
    /\ job = NoJob
    /\ run = DefaultJobSettings
    /\ result = "none"
    /\ child = NoChild
    /\ calls = << >>

(***************************************************************************)
(* One call of RunJob                                                      *)
(***************************************************************************)
InitRunJob ==
    /\ mode = "call"
    /\ dry_run \in BOOLEAN
    /\ jobs = << >>
    /\ file = 0
    /\ idx = 1
    /\ succeeded = 0
    /\ failed = 0
    /\ mpc = "call"
    /\ reported = << >>
    /\ ran = << >>
    /\ wmi = NoWmi
    /\ fs \in FileSystems
    /\ RunJobEntry
    /\ rin = NoInput
    /\ rout = NoResolve

NextRunJob ==
    \/ RunJobIsFile
    \/ RunJobOpen
    \/ RunJobLoad(Docs)
    \/ RunJobValidate
    \/ RunJobSettings
    \/ RunJobSource
    \/ RunJobDestination
    \/ RunJobSourceExists
    \/ RunJobFlagSrc
    \/ RunJobFlagDst
    \/ RunJobExecute
    \/ RunJobWait

SpecRunJob == InitRunJob /\ [][NextRunJob]_vars

(***************************************************************************)
(* main                                                                    *)
(*                                                                         *)
(* jobs holds, for each job file in the order the for loop visits the set, *)
(* whether its name ends with ".yaml"; file is the position in jobs of the *)
(* file the glob loop visited last (0 when no pattern matched a file).     *)
(***************************************************************************)
RECURSIVE SeqsUpTo(_, _)
SeqsUpTo(S, n) ==
    IF n = 0 THEN {<< >>}
    ELSE SeqsUpTo(S, n - 1) \cup
         {Append(q, x) : q \in {t \in SeqsUpTo(S, n - 1) : Len(t) = n - 1}, x \in S}

RunJobIdle ==
    /\ pc = "idle"
    /\ job = NoJob
    /\ run = DefaultJobSettings
    /\ result = "none"
    /\ child = NoChild
    /\ calls = << >>

Init ==
    /\ mode \in {"drives", "nojobs", "batch"}
    /\ dry_run \in BOOLEAN
    /\ jobs \in SeqsUpTo(BOOLEAN, NumFiles)
    /\ mode # "batch" => jobs = << >>
    /\ file \in 0 .. Len(jobs)
    /\ (file = 0) = (jobs = << >>)
    /\ idx = 1
    /\ succeeded = 0
    /\ failed = 0
    /\ mpc = "args"
    /\ reported = << >>
    /\ ran = [i \in 1 .. Len(jobs) |-> 0]
    /\ wmi = NoWmi
    /\ fs \in FileSystems
    /\ RunJobIdle
    /\ rin = NoInput
    /\ rout = NoResolve

runJobVars == <<pc, job, run, result, child, calls>>

\* --drives: ListDrives() and sys.exit(0)
MainListDrives ==
    /\ mpc = "args"
    /\ mode = "drives"
    /\ \E host \in HostAnswers :
          LET w == GetLogicalDrivesFromWMI(wmi, host)
          IN  /\ wmi' = [w EXCEPT !.err = FALSE]
              /\ mpc' = IF w.err THEN "crashed" ELSE "exit0"
    /\ UNCHANGED <<mode, dry_run, jobs, file, idx, succeeded, failed, reported, ran,
                   fs, runJobVars, rin, rout>>

\* no job argument: sys.exit(1)
MainNoJobs ==
    /\ mpc = "args"
    /\ mode = "nojobs"
    /\ mpc' = "exit1"
    /\ UNCHANGED <<mode, dry_run, jobs, file, idx, succeeded, failed, reported, ran,
                   wmi, fs, runJobVars, rin, rout>>

\* the glob loop has filled jobs
MainGlob ==
    /\ mpc = "args"
    /\ mode = "batch"
    /\ mpc' = "loop"
    /\ UNCHANGED <<mode, dry_run, jobs, file, idx, succeeded, failed, reported, ran,
                   wmi, fs, runJobVars, rin, rout>>

\* the test `file.endswith(".yaml")` of the for loop over jobs
ExtensionOfJob(i) == jobs[i]

ExtensionTest(i) == jobs[file]

\* one round of the for loop, up to the call of RunJob
MainNext ==
    /\ mpc = "loop"
    /\ idx <= Len(jobs)
    /\ IF ExtensionTest(idx)
       THEN /\ mpc' = "running"
            /\ pc' = "isfile"
            /\ ran' = [ran EXCEPT ![idx] = @ + 1]
            /\ UNCHANGED idx
       ELSE /\ idx' = idx + 1
            /\ UNCHANGED <<mpc, pc, ran>>
    /\ UNCHANGED <<mode, dry_run, jobs, file, succeeded, failed, reported,
                   wmi, fs, job, run, result, child, calls, rin, rout>>

\* RunJob has returned: count its verdict
MainTally ==
    /\ mpc = "running"
    /\ pc = "returned"
    /\ IF result = "True"
       THEN succeeded' = succeeded + 1 /\ UNCHANGED failed
       ELSE failed' = failed + 1 /\ UNCHANGED succeeded
    /\ idx' = idx + 1
    /\ mpc' = "loop"
    /\ pc' = "idle"
    /\ job' = NoJob
    /\ run' = DefaultJobSettings
    /\ result' = "none"
    /\ child' = NoChild
    /\ calls' = << >>
    /\ UNCHANGED <<mode, dry_run, jobs, file, reported, ran, wmi, fs, rin, rout>>

\* RunJob has raised: nothing in main catches it
MainCrash ==
    /\ mpc = "running"
    /\ pc = "raised"
    /\ mpc' = "crashed"
    /\ UNCHANGED <<mode, dry_run, jobs, file, idx, succeeded, failed, reported, ran,
                   wmi, fs, runJobVars, rin, rout>>

\* "Finished: {} succeeded and {} failed"
MainFinish ==
    /\ mpc = "loop"
    /\ idx > Len(jobs)
    /\ reported' = <<succeeded, failed>>
    /\ mpc' = "done"
    /\ UNCHANGED <<mode, dry_run, jobs, file, idx, succeeded, failed, ran,
                   wmi, fs, runJobVars, rin, rout>>

Next ==
    \/ MainListDrives
    \/ MainNoJobs
    \/ MainGlob
    \/ MainNext
    \/ MainTally
    \/ MainCrash
    \/ MainFinish
    \/ RunJobIsFile
    \/ RunJobOpen
    \/ RunJobLoad(BatchDocs)
    \/ RunJobValidate
    \/ RunJobSettings
    \/ RunJobSource
    \/ RunJobDestination
    \/ RunJobSourceExists
    \/ RunJobFlagSrc
    \/ RunJobFlagDst
    \/ RunJobExecute
    \/ RunJobWait

Spec == Init /\ [][Next]_vars

(***************************************************************************)
(* ResolveDriveLetter on its own, over every bounded host snapshot         *)
(***************************************************************************)
Volumes == { Volume(n, s, l) : n \in DriveTokens, s \in Serials, l \in Labels }

DistinctNames(vols) ==
    \A i, k \in 1 .. Len(vols) : i # k => vols[i].Name # vols[k].Name

Snapshots == { v \in SeqsUpTo(Volumes, MaxVolumes) : DistinctNames(v) }

Criteria ==
    { MapSection(<<"data">>, s, n, NoPath) :
        s \in Serials \cup {Absent, "ZZZZ9999"},
        n \in Labels \cup {Absent, "NONE"} } \ {MapSection(<<"data">>, Absent, Absent, NoPath)}

InitResolve ==
    /\ mode = "resolve"
    /\ dry_run = FALSE
    /\ jobs = << >>
    /\ file = 0
    /\ idx = 1
    /\ succeeded = 0
    /\ failed = 0
    /\ mpc = "call"
    /\ reported = << >>
    /\ ran = << >>
    /\ wmi = NoWmi
    /\ fs \in FileSystems
    /\ RunJobIdle
    /\ rin \in [options : Criteria, host : {HostDisks(v) : v \in Snapshots}]
    /\ rout = NoResolve

Resolve ==
    /\ mode = "resolve"
    /\ mpc = "call"
    /\ rout' = ResolveDriveLetter(rin.options, wmi, rin.host)
    /\ wmi' = [rout'.w EXCEPT !.err = FALSE]
    /\ mpc' = "resolved"
    /\ UNCHANGED <<mode, dry_run, jobs, file, idx, succeeded, failed, reported, ran,
                   fs, runJobVars, rin>>

NextResolve == Resolve

SpecResolve == InitResolve /\ [][NextResolve]_vars

(***************************************************************************)
(* Properties                                                              *)
(***************************************************************************)
\* the current call of RunJob has gone through this step, with this outcome
Has(name, value) == \E i \in 1 .. Len(calls) : calls[i] = Event(name, value)

Called(name) == \E i \in 1 .. Len(calls) : calls[i][1] = name

Min(S) == CHOOSE x \in S : \A y \in S : x <= y

\* the positions of the volumes whose attribute equals val
Matches(disks, attr, val) == {i \in 1 .. Len(disks) : disks[i][attr] = val}

\* C1: whatever step of RunJob fails, RunJob returns False; the one exception
\* that may leave RunJob is the failure of the volume directory query
C1_OnlyVolumeQueryPropagates ==
    pc = "raised" => result = "com_error"

HasPath(section) == section.kind = "map" /\ "path" \in section.keys

LacksRequired(j) ==
    /\ j.kind = "map"
    /\ \/ ~({"name", "source", "destination"} \subseteq j.keys)
       \/ ~HasPath(j.source)
       \/ ~HasPath(j.destination)

\* C2: a job description without name, source, destination, source path or
\* destination path makes ValidateJob raise RoboException and RunJob return
\* False, and DoRobocopy is not reached
C2_MissingFieldRejected ==
    (Called("ValidateJob") /\ LacksRequired(job)) =>
        /\ Has("ValidateJob", "RoboException")
        /\ pc = "returned"
        /\ result = "False"
        /\ ~Called("DoRobocopy")

FlagMissing(section, drive) ==
    "flag" \in section.keys /\ FlagPath(section, drive) \notin fs.files

\* C3: DoRobocopy runs only after CheckFlag returned true for the source and
\* then for the destination; a declared flag whose substituted path is no
\* regular file makes RunJob return False with no child started; a location
\* without flag never blocks
C3_SafetyGate ==
    /\ (Called("DoRobocopy") \/ child.state # "none") =>
          \E i, k, m \in 1 .. Len(calls) :
             /\ i < k /\ k < m
             /\ calls[i] = Event("CheckFlag_src", "True")
             /\ calls[k] = Event("CheckFlag_dst", "True")
             /\ calls[m][1] = "DoRobocopy"
    /\ (/\ Called("CheckFlag_src")
        /\ FlagMissing(job.source, run.src_drive) \/ FlagMissing(job.destination, run.dst_drive))
          => /\ ~Called("DoRobocopy")
             /\ child.state = "none"
             /\ pc = "returned" => result = "False"
             /\ pc # "raised"
             /\ pc \in {"flag_dst", "returned"}
    /\ (Called("CheckFlag_src") /\ "flag" \notin job.source.keys)
          => Has("CheckFlag_src", "True")
    /\ (Called("CheckFlag_dst") /\ "flag" \notin job.destination.keys)
          => Has("CheckFlag_dst", "True")

C3_Witness ==
    /\ pc = "returned"
    /\ result = "False"
    /\ "flag" \in job.source.keys
    /\ Has("CheckFlag_src", "True")
    /\ "flag" \in job.destination.keys
    /\ Has("CheckFlag_dst", "False")

NumYaml == Cardinality({i \in 1 .. Len(jobs) : ExtensionOfJob(i)})

\* C4: every job file of a batch is handed to RunJob exactly once and counted
\* exactly once, whatever the other jobs did, and the tally is reported after
\* the last one
C4_EveryJobRunAndCounted ==
    mode = "batch" =>
        /\ mpc = "crashed" => result = "com_error"
        /\ mpc = "done" =>
              /\ \A i \in 1 .. Len(jobs) : ExtensionOfJob(i) => ran[i] = 1
              /\ succeeded + failed = NumYaml
              /\ reported = <<succeeded, failed>>

OnResolvedDrive(section, path, drive) ==
    IF HasCriteria(section)
    THEN /\ splitdrive(path)[1] = drive
         /\ \/ /\ "serial" \in section.keys
               /\ Matches(wmi.disks, "VolumeSerialNumber", section.serial) # {}
               /\ drive = <<wmi.disks[Min(Matches(wmi.disks, "VolumeSerialNumber",
                                                  section.serial))].Name>>
            \/ /\ "name" \in section.keys
               /\ Matches(wmi.disks, "VolumeName", section.name) # {}
               /\ drive = <<wmi.disks[Min(Matches(wmi.disks, "VolumeName",
                                                  section.name))].Name>>
    ELSE drive = splitdrive(ExpandEnvironmentVars(section.path))[1]

\* C5: once ParseLocations has resolved both locations, a location with
\* serial or name has the resolver's drive and its path lies on that drive,
\* whatever drive the literal path names; a location with neither has the
\* drive of its own path
C5_PathOnResolvedDrive ==
    Called("exists") =>
        /\ OnResolvedDrive(job.source, run.src_path, run.src_drive)
        /\ OnResolvedDrive(job.destination, run.dst_path, run.dst_drive)

\* C6: ResolveDriveLetter returns the first volume whose serial equals the
\* criterion; only when serial is absent or matches nothing, the first volume
\* whose label equals name; else it fails, listing every criterion it tried
\* in the order tried
C6_SerialBeforeName ==
    mpc = "resolved" =>
        LET o == rin.options
            disks == rin.host.disks
            hasS == "serial" \in o.keys
            hasN == "name" \in o.keys
            bySerial == Matches(disks, "VolumeSerialNumber", o.serial)
            byName == Matches(disks, "VolumeName", o.name)
            triedS == IF hasS THEN <<<<"serial", o.serial>>>> ELSE << >>
            triedN == IF hasN THEN <<<<"name", o.name>>>> ELSE << >>
        IN  IF hasS /\ bySerial # {}
            THEN /\ rout.exc = ""
                 /\ rout.found = disks[Min(bySerial)].Name
                 /\ rout.tried = triedS
            ELSE IF hasN /\ byName # {}
            THEN /\ rout.exc = ""
                 /\ rout.found = disks[Min(byName)].Name
                 /\ rout.tried = triedS \o triedN
            ELSE /\ rout.exc = "RoboException"
                 /\ rout.tried = triedS \o triedN

C6_Witness ==
    /\ mpc = "resolved"
    /\ {"serial", "name"} \subseteq rin.options.keys
    /\ Matches(rin.host.disks, "VolumeSerialNumber", rin.options.serial) = {}
    /\ Cardinality(Matches(rin.host.disks, "VolumeName", rin.options.name)) >= 2
    /\ rout.found = rin.host.disks[1].Name

\* C7: outside dry-run mode DoRobocopy returns only after the child has
\* exited, and returns true exactly when the exit code is below 8
C7_ExitCodeBelowEight ==
    (~dry_run /\ Called("DoRobocopy") /\ pc = "returned") =>
        /\ child.state = "exited"
        /\ (result = "True") = (child.returncode < 8)

C7_Witness ==
    /\ ~dry_run
    /\ pc = "returned"
    /\ child.state = "exited"
    /\ child.returncode = 8
    /\ result = "False"

FailsBeforeExecution ==
    \/ Has("isfile", "False")
    \/ Has("open", "EACCES")
    \/ Has("LoadJob", "None")
    \/ Has("ValidateJob", "RoboException")
    \/ Has("source", "RoboException")
    \/ Has("destination", "RoboException")
    \/ Has("exists", "False")
    \/ Has("CheckFlag_src", "False")
    \/ Has("CheckFlag_dst", "False")

\* C8: in dry-run mode no child is ever started and DoRobocopy returns true;
\* a dry-run RunJob returns False only for a failure of a step before
\* execution
C8_DryRunNeverSpawns ==
    dry_run =>
        /\ child.state = "none"
        /\ Called("DoRobocopy") => pc = "returned" /\ result = "True"
        /\ (pc = "returned" /\ result = "False") => FailsBeforeExecution

C8_Witness ==
    /\ dry_run
    /\ Called("DoRobocopy")
    /\ HasCriteria(job.source)
    /\ pc = "returned"
    /\ result = "True"

\* C9: when ParseLocations finds that the resolved source does not exist,
\* RunJob returns False and no child is started; when the source exists the
\* test passes, whether or not the destination exists, and a False of RunJob
\* then comes from a safety flag or from the child's exit code
C9_SourceMustExist ==
    Called("exists") =>
        IF ~exists(fs, run.src_path)
        THEN /\ pc = "returned"
             /\ result = "False"
             /\ child.state = "none"
             /\ ~Called("DoRobocopy")
        ELSE /\ Has("exists", "True")
             /\ (pc = "returned" /\ result = "False") =>
                   \/ Has("CheckFlag_src", "False")
                   \/ Has("CheckFlag_dst", "False")
                   \/ child.state = "exited" /\ child.returncode >= 8

C9_Witness ==
    /\ Called("exists")
    /\ ~exists(fs, run.src_path)
    /\ ~exists(fs, run.dst_path)
    /\ HasCriteria(job.source)
    /\ pc = "returned"
    /\ result = "False"

\* C10: in one process the host is queried by the first call of
\* GetLogicalDrivesFromWMI only, and once the cache is filled it never changes
C10_QueriedOnce ==
    /\ [](wmi.queries <= 1)
    /\ [][wmi.cached => /\ wmi'.cached
                        /\ wmi'.disks = wmi.disks
                        /\ wmi'.queries = wmi.queries]_vars

C10_Witness ==
    /\ idx >= 2
    /\ wmi.cached
    /\ wmi.calls >= 3
    /\ wmi.queries = 1

====
